---- MODULE Spec2Model ----
(***************************************************************************)
(* cumulative_returns of alphainspect/utils.py: the staggered multi-fund   *)
(* return accumulator.  Floats are modelled as exact decimals: weights are *)
(* integers counting 1/WScale, gross returns integers counting 1/RScale,   *)
(* equities are reduced fractions <<num, den>>; NaN is a separate value    *)
(* that every arithmetic operator propagates.                              *)
(***************************************************************************)
EXTENDS Integers, Sequences, FiniteSets, TLC

VARIABLES arg,       \* the caller's arguments as passed (values at call entry)
          idle,      \* what a fund holds before its first rebalance
          heap,      \* array buffers: buffer id -> stored rows, one per period
          returns,   \* local name `returns`: [shape, buf]
          weights,   \* local name `weights`: [shape, buf]
          m, n,      \* local shape variables
          i,         \* periods processed by the fund loop
          position,  \* per fund: the weights row it holds
          equity,    \* per fund: running equity
          out,       \* rows of per-fund equities written so far
          result,    \* the returned value
          error,     \* the exception raised, if any
          pc

vars == <<arg, idle, heap, returns, weights, m, n, i, position, equity, out,
          result, error, pc>>

-----------------------------------------------------------------------------
(* Bounds of the model *)
MaxT == 2
MaxN == 2
MaxFunds == 2
MaxFreq == 2

-----------------------------------------------------------------------------
(* Decimal numbers *)
RoundDecimals == 5
WScale == 10 ^ (RoundDecimals + 1)
RScale == 10 ^ 1
NaN == 0 - 2 ^ 30
None == <<>>

IsNaN(x) == x = NaN
\* the float comparison x == y: false as soon as one side is NaN
EqF(x, y) == ~IsNaN(x) /\ ~IsNaN(y) /\ x = y
Abs(x) == IF IsNaN(x) THEN NaN ELSE IF x < 0 THEN 0 - x ELSE x

RECURSIVE Gcd(_, _)
Gcd(a, b) == IF b = 0 THEN a ELSE Gcd(b, a % b)

NaNQ == <<0, 0>>
IsNaNQ(q) == q[2] = 0
Q(num, den) ==
    LET g == Gcd(IF num < 0 THEN 0 - num ELSE num, den)
    IN  IF den = 0 THEN NaNQ ELSE <<num \div g, den \div g>>
QMul(a, b) ==
    IF IsNaNQ(a) \/ IsNaNQ(b) THEN NaNQ
    ELSE LET x == Q(a[1], b[2])
             y == Q(b[1], a[2])
         IN  Q(x[1] * y[1], x[2] * y[2])
QAdd(a, b) ==
    IF IsNaNQ(a) \/ IsNaNQ(b) THEN NaNQ
    ELSE LET g == Gcd(a[2], b[2])
         IN  Q(a[1] * (b[2] \div g) + b[1] * (a[2] \div g), (a[2] \div g) * b[2])
QSub(a, b) == QAdd(a, IF IsNaNQ(b) THEN NaNQ ELSE <<0 - b[1], b[2]>>)
QDivInt(a, k) == IF IsNaNQ(a) \/ k = 0 THEN NaNQ ELSE QMul(a, Q(1, k))

\* a function over 1..k as an explicit sequence, its elements evaluated once
Tuple(f) == f \o <<>>

RECURSIVE SumSeq(_)
SumSeq(s) == IF s = <<>> THEN 0 ELSE Head(s) + SumSeq(Tail(s))

RECURSIVE QSum(_)
QSum(s) == IF s = <<>> THEN <<0, 1>> ELSE QAdd(Head(s), QSum(Tail(s)))

-----------------------------------------------------------------------------
(* numpy array operations, on matrices given as sequences of rows *)

\* x.reshape(-1, 1): a view of the same buffer
Reshape(a) == [shape |-> <<a.shape[1], 1>>, buf |-> a.buf]

\* faulty variant: rounds to four decimals
RoundFour(x) ==
    LET unit == 10 * (WScale \div (10 ^ RoundDecimals))
        q == x \div unit
        rem == x % unit
    IN  IF 2 * rem < unit THEN q * unit
        ELSE IF 2 * rem > unit THEN (q + 1) * unit
        ELSE IF q % 2 = 0 THEN q * unit ELSE (q + 1) * unit

\* np.round(x, 5), x >= 0: nearest multiple of 10^-5, ties to the even one
Round(x) ==
    LET unit == WScale \div (10 ^ RoundDecimals)
        q == x \div unit
        rem == x % unit
    IN  IF 2 * rem < unit THEN q * unit
        ELSE IF 2 * rem > unit THEN (q + 1) * unit
        ELSE IF q % 2 = 0 THEN q * unit ELSE (q + 1) * unit

\* np.nansum over one row
NanSum(row) == SumSeq([j \in 1..Len(row) |-> IF IsNaN(row[j]) THEN 0 ELSE row[j]])

AbsRow(row) == Tuple([j \in 1..Len(row) |-> Abs(row[j])])

\* 1 - np.round(np.nansum(np.abs(weights), axis=1), 5)
WeightsCash(W) == Tuple([t \in 1..Len(W) |-> WScale - Round(NanSum(AbsRow(W[t])))])

\* np.concatenate((column, M), axis=1)
Concatenate(col, M) == Tuple([t \in 1..Len(M) |-> <<col[t]>> \o M[t]])

\* M[:, 0] = col
SetColumn0(M, col) == Tuple([t \in 1..Len(M) |-> [M[t] EXCEPT ![1] = col[t]]])

\* faulty variant: the NaN replacement left out
WhereKeep(M, fill) == M

\* np.where(M == M, M, fill)
Where(M, fill) ==
    Tuple([t \in 1..Len(M) |->
              Tuple([j \in 1..Len(M[t]) |-> IF EqF(M[t][j], M[t][j]) THEN M[t][j] ELSE fill])])

Ones(len) == Tuple([t \in 1..len |-> RScale])
Zeros(len) == Tuple([t \in 1..len |-> 0])

\* faulty variant: the column is inserted into the array's own buffer
ConcatInPlace(a, fresh) == a.buf

\* buffer that np.concatenate writes its result to: a fresh one
ConcatTarget(a, fresh) == fresh

\* lines 154-166 on values: the weights matrix handed to the fund loop
PreparedWeights(W) == Where(SetColumn0(Concatenate(Zeros(Len(W)), W), WeightsCash(W)), 0)

\* lines 156-164 on values: the returns matrix handed to the fund loop
PreparedReturns(R, risk_free) ==
    Where(SetColumn0(Concatenate(Ones(Len(R)), R), [t \in 1..Len(R) |-> risk_free]), RScale)

-----------------------------------------------------------------------------
(* _sub_portfolio_returns: the per-fund recurrence *)

\* faulty variant: every fund rebalances at 0, freq, 2*freq, ...
RebalanceNoOffset(k, t, freq) == t % freq = 0

\* fund k takes over the weights row of period t at t = k, k+freq, k+2*freq, ...
Rebalance(k, t, freq) == t >= k /\ (t - k) % freq = 0

\* what a fund holds before its first rebalance: nothing, or cash only
IdleRow(cols, idl) == Tuple([j \in 1..cols |-> IF j = 1 /\ idl = "cash" THEN WScale ELSE 0])

\* faulty variant: every fund starts from the whole of init_cash
StartEquityWhole(init_cash, funds) == Q(init_cash, 1)

\* equity of each fund before the first period
StartEquity(init_cash, funds) == Q(init_cash, funds)

\* 1 + sum_j pos[j] * (ret[j] - 1)
PeriodReturn(pos, ret) ==
    IF \E j \in 1..Len(pos) : IsNaN(pos[j]) \/ IsNaN(ret[j]) THEN NaNQ
    ELSE Q(WScale * RScale + SumSeq([j \in 1..Len(pos) |-> pos[j] * (ret[j] - RScale)]),
           WScale * RScale)

\* faulty variant: every fund takes over the row of every period
NextPositionEveryPeriod(pos, k, t, W, freq) == W[t + 1]

\* the row fund k holds during period t
NextPosition(pos, k, t, W, freq) == IF Rebalance(k, t, freq) THEN W[t + 1] ELSE pos

\* one period of the loop, for all funds; st = [position, equity, out]
Period(st, t, W, R, funds, freq) ==
    LET pos == Tuple([f \in 1..funds |-> NextPosition(st.position[f], f - 1, t, W, freq)])
        eq == Tuple([f \in 1..funds |-> QMul(st.equity[f], PeriodReturn(pos[f], R[t + 1]))])
    IN  [position |-> pos, equity |-> eq, out |-> Append(st.out, eq)]

Start(cols, funds, init_cash, idl) ==
    [position |-> Tuple([f \in 1..funds |-> IdleRow(cols, idl)]),
     equity |-> Tuple([f \in 1..funds |-> StartEquity(init_cash, funds)]),
     out |-> <<>>]

RECURSIVE Loop(_, _, _, _, _, _, _)
Loop(st, t, rows, W, R, funds, freq) ==
    IF t >= rows THEN st ELSE Loop(Period(st, t, W, R, funds, freq), t + 1, rows, W, R, funds, freq)

\* the (m x funds) matrix of per-fund equities
SubPortfolioReturns(rows, cols, W, R, funds, freq, init_cash, idl) ==
    Loop(Start(cols, funds, init_cash, idl), 0, rows, W, R, funds, freq).out

-----------------------------------------------------------------------------
(* aggregation, lines 173-181 *)

\* faulty variant: out.sum(axis=1)
SumAxis1(o) == [t \in 1..Len(o) |-> QSum(o[t])]

\* faulty variant: out.mean(axis=0)
MeanAxis0(o) ==
    IF o = <<>> THEN <<>>
    ELSE [f \in 1..Len(o[1]) |-> QDivInt(QSum([t \in 1..Len(o) |-> o[t][f]]), Len(o))]

\* out.mean(axis=1); the mean of an empty row is NaN
MeanAxis1(o) == Tuple([t \in 1..Len(o) |-> QDivInt(QSum(o[t]), Len(o[t]))])

RECURSIVE CumProd(_)
CumProd(s) ==
    IF s = <<>> THEN <<>>
    ELSE LET front == CumProd(SubSeq(s, 1, Len(s) - 1))
             last == s[Len(s)]
         IN  Append(front, IF front = <<>> THEN last ELSE QMul(front[Len(front)], last))

\* faulty variant: benchmark.cumprod()
BenchmarkCurveNoPlusOne(b) == CumProd([t \in 1..Len(b) |-> Q(b[t], RScale)])

\* (benchmark + 1).cumprod()
BenchmarkCurve(b) == CumProd(Tuple([t \in 1..Len(b) |-> Q(RScale + b[t], RScale)]))

Aggregate(o, benchmark, ret_mean) ==
    IF ret_mean
    THEN IF benchmark = None
         THEN MeanAxis1(o)
         ELSE LET mean == MeanAxis1(o)
                  curve == BenchmarkCurve(benchmark)
              IN  Tuple([t \in 1..Len(o) |-> QSub(mean[t], curve[t])])
    ELSE o

\* the whole call as a function of its arguments (shapes agreeing)
CumulativeReturns(a, idl) ==
    LET W == PreparedWeights(a.weights.data)
        R == PreparedReturns(a.returns.data, a.risk_free)
    IN  Aggregate(SubPortfolioReturns(Len(W), Len(W[1]), W, R, a.funds, a.freq,
                                      a.init_cash, idl),
                  a.benchmark, a.ret_mean)

-----------------------------------------------------------------------------
(* Inputs *)

Half == WScale \div 2

\* rows of (weights, returns) over `cols` assets
RowKinds == {"long", "short", "nanw", "nanr"}
RowOf(kind, cols) ==
    CASE kind = "long" ->
           [w |-> [j \in 1..cols |-> IF j = 1 THEN WScale ELSE 0],
            r |-> [j \in 1..cols |-> RScale + 1]]
      [] kind = "short" ->
           [w |-> [j \in 1..cols |-> IF j = cols THEN 0 - Half ELSE IF j = 1 THEN Half ELSE 0],
            r |-> [j \in 1..cols |-> RScale - 1]]
      [] kind = "nanw" ->
           [w |-> [j \in 1..cols |-> IF j = 1 THEN NaN ELSE Half],
            r |-> [j \in 1..cols |-> RScale + 2]]
      [] kind = "nanr" ->
           [w |-> [j \in 1..cols |-> IF j = 1 THEN Half ELSE IF j = cols THEN 0 - Half ELSE 0],
            r |-> [j \in 1..cols |-> IF j = 1 THEN NaN ELSE RScale - 1]]

\* an array value: its shape and its data, stored one row per period (a 1-D
\* array of length T is stored as T rows of one element)
Array2(M) == [shape |-> <<Len(M), Len(M[1])>>, data |-> M]
Array1(v) == [shape |-> <<Len(v)>>, data |-> [t \in 1..Len(v) |-> <<v[t]>>]]

\* the array as a matrix, 1-D promoted to one column
Promote(a) == a.data

Benchmarks(len) == {None, [t \in 1..len |-> IF t % 2 = 1 THEN 1 ELSE 0 - 1]}

Cash == {[init_cash |-> 1, risk_free |-> RScale], [init_cash |-> 2, risk_free |-> RScale + 1]}

Call(ret, wgt, funds, freq, benchmark, ret_mean, cash) ==
    [returns |-> ret, weights |-> wgt, funds |-> funds, freq |-> freq,
     benchmark |-> benchmark, ret_mean |-> ret_mean,
     init_cash |-> cash.init_cash, risk_free |-> cash.risk_free]

\* the input layouts: one asset as a vector, or a matrix of 1..MaxN assets
Layouts == {[dim |-> 1, cols |-> 1]} \cup {[dim |-> 2, cols |-> c] : c \in 1..MaxN}

Input(M, dim) == IF dim = 1 THEN Array1([t \in 1..Len(M) |-> M[t][1]]) ELSE Array2(M)

\* calls on matrices of MaxT rows built from the row kinds, every parameter varied
GridCalls ==
    { Call(Input([t \in 1..MaxT |-> RowOf(k[t], l.cols).r], l.dim),
           Input([t \in 1..MaxT |-> RowOf(k[t], l.cols).w], l.dim),
           funds, freq, b, rm, c) :
        k \in [1..MaxT -> RowKinds], l \in Layouts,
        funds \in 1..MaxFunds, freq \in 1..MaxFreq,
        b \in Benchmarks(MaxT), rm \in BOOLEAN, c \in Cash }

\* calls with funds < 1 or freq < 1
InvalidCalls ==
    { Call(Input([t \in 1..MaxT |-> RowOf("long", l.cols).r], l.dim),
           Input([t \in 1..MaxT |-> RowOf("long", l.cols).w], l.dim),
           p[1], p[2], b, rm, [init_cash |-> 1, risk_free |-> RScale]) :
        l \in Layouts, b \in Benchmarks(MaxT), rm \in BOOLEAN,
        p \in {q \in (0..MaxFunds) \X (0..MaxFreq) : q[1] = 0 \/ q[2] = 0} }

\* weights finer than the rounding step, one period
FineWeights == {5, 15, 25, 333333, 999995, 1000004, 499994, 499996}
FineCalls ==
    { Call(Array2(<<[j \in 1..cols |-> RScale + 1]>>), Array2(<<[j \in 1..cols |-> x]>>),
           funds, 1, None, TRUE, [init_cash |-> 1, risk_free |-> RScale]) :
        x \in FineWeights, cols \in 1..MaxN, funds \in 1..MaxFunds }

\* the docstring's example: one asset held as [0,1,1,1,0,0], three funds, three days
DocWeights == <<0, WScale, WScale, WScale, 0, 0>>
DocCall ==
    Call(Array1([t \in 1..6 |-> RScale + 1]), Array1(DocWeights), 3, 3, None, TRUE,
         [init_cash |-> 1, risk_free |-> RScale])

\* one fund: weights [[1],[0],[0]], returns [[1.10],[1.00],[1.00]]
SingleCalls ==
    { Call(Array2(<< <<RScale + 1>>, <<RScale>>, <<RScale>> >>),
           Array2(<< <<WScale>>, <<0>>, <<0>> >>),
           1, freq, None, TRUE, [init_cash |-> 1, risk_free |-> RScale]) : freq \in 1..MaxFreq }

\* returns and weights of different shapes: returns has more rows, or more columns
MismatchCalls ==
    { Call(Array2([t \in 1..(2 + d[1]) |-> [j \in 1..(1 + d[2]) |-> RScale + 1]]),
           Array2([t \in 1..2 |-> <<WScale>>]),
           funds, freq, None, rm, [init_cash |-> 1, risk_free |-> RScale]) :
        d \in {<<1, 0>>, <<0, 1>>, <<1, 1>>},
        funds \in 1..MaxFunds, freq \in 1..MaxFreq, rm \in BOOLEAN }

Calls == GridCalls \cup InvalidCalls \cup FineCalls \cup {DocCall} \cup SingleCalls \cup MismatchCalls

\* the preconditions of the call
Valid(a) ==
    /\ a.funds >= 1
    /\ a.freq >= 1
    /\ Len(Promote(a.returns)) = Len(Promote(a.weights))
    /\ Len(Promote(a.returns)[1]) = Len(Promote(a.weights)[1])

-----------------------------------------------------------------------------
(* The call *)

CallerReturns == 1
CallerWeights == 2
CallerBenchmark == 3
Buffers == 1..7

Init ==
    /\ arg \in Calls
    /\ idle \in IF arg.funds >= 2 THEN {"none", "cash"} ELSE {"none"}
    /\ heap = [b \in Buffers |->
                 IF b = CallerReturns THEN arg.returns.data
                 ELSE IF b = CallerWeights THEN arg.weights.data
                 ELSE IF b = CallerBenchmark THEN arg.benchmark
                 ELSE <<>>]
    /\ returns = [shape |-> arg.returns.shape, buf |-> CallerReturns]
    /\ weights = [shape |-> arg.weights.shape, buf |-> CallerWeights]
    /\ m = 0 /\ n = 0 /\ i = 0
    /\ position = <<>> /\ equity = <<>> /\ out = <<>>
    /\ result = <<>> /\ error = "" /\ pc = "entry"

\* lines 144-172: promotion, cash column, NaN replacement, entry of the fund loop
Prepare ==
    /\ pc = "entry"
    /\ LET r1 == IF Len(returns.shape) = 1 THEN Reshape(returns) ELSE returns
           w1 == IF Len(weights.shape) = 1 THEN Reshape(weights) ELSE weights
           m1 == w1.shape[1]
           n1 == w1.shape[2]
           W == heap[w1.buf]
           R == heap[r1.buf]
           weights_cash == WeightsCash(W)
       IN  IF r1.shape[1] # m1
           THEN \* np.concatenate of columns of different lengths
                /\ pc' = "failed" /\ error' = "ValueError"
                /\ returns' = r1 /\ weights' = w1 /\ m' = m1 /\ n' = n1
                /\ UNCHANGED <<heap, i, position, equity, out>>
           ELSE LET r2 == [shape |-> <<m1, r1.shape[2] + 1>>, buf |-> ConcatTarget(r1, 4)]
                    w2 == [shape |-> <<m1, n1 + 1>>, buf |-> ConcatTarget(w1, 5)]
                    h1 == [heap EXCEPT ![r2.buf] = Concatenate(Ones(m1), R)]
                    h2 == [h1 EXCEPT ![w2.buf] = Concatenate(Zeros(m1), W)]
                    h3 == [h2 EXCEPT ![w2.buf] = SetColumn0(h2[w2.buf], weights_cash)]
                    h4 == [h3 EXCEPT ![r2.buf] =
                              SetColumn0(h3[r2.buf], [t \in 1..m1 |-> arg.risk_free])]
                    h5 == [h4 EXCEPT ![6] = Where(h4[r2.buf], RScale)]
                    h6 == [h5 EXCEPT ![7] = Where(h5[w2.buf], 0)]
                    st == Start(n1 + 1, arg.funds, arg.init_cash, idle)
                IN  /\ heap' = h6
                    /\ returns' = [shape |-> r2.shape, buf |-> 6]
                    /\ weights' = [shape |-> w2.shape, buf |-> 7]
                    /\ m' = m1 /\ n' = n1 + 1
                    /\ i' = 0
                    /\ position' = st.position /\ equity' = st.equity /\ out' = st.out
                    /\ pc' = "funds" /\ error' = ""
    /\ UNCHANGED <<arg, idle, result>>

\* one period of the loop of _sub_portfolio_returns
FundPeriod ==
    /\ pc = "funds" /\ i < m
    /\ arg.freq # 0 \/ arg.funds = 0
    /\ LET st == Period([position |-> position, equity |-> equity, out |-> out], i,
                        heap[weights.buf], heap[returns.buf], arg.funds, arg.freq)
       IN  position' = st.position /\ equity' = st.equity /\ out' = st.out
    /\ i' = i + 1
    /\ UNCHANGED <<arg, idle, heap, returns, weights, m, n, result, error, pc>>

\* the cadence test of a fund with freq = 0
FundZeroDivision ==
    /\ pc = "funds" /\ i < m
    /\ arg.freq = 0 /\ arg.funds # 0
    /\ pc' = "failed" /\ error' = "ZeroDivisionError"
    /\ UNCHANGED <<arg, idle, heap, returns, weights, m, n, i, position, equity, out, result>>

\* lines 173-181
Return ==
    /\ pc = "funds" /\ i = m
    /\ result' = Aggregate(out, arg.benchmark, arg.ret_mean)
    /\ pc' = "done"
    /\ UNCHANGED <<arg, idle, heap, returns, weights, m, n, i, position, equity, out, error>>

Next == Prepare \/ FundPeriod \/ FundZeroDivision \/ Return

Spec == Init /\ [][Next]_vars

-----------------------------------------------------------------------------
(* Properties *)

Prepared == pc \in {"funds", "done"}
Done == pc = "done"
W0 == heap[weights.buf]
R0 == heap[returns.buf]
NoBenchmark(a) == [a EXCEPT !.benchmark = None]

\* 1 + sum over the columns j of W[s][j] * (R[s][j] - 1), for row s
PlainFactor(W, R, s) ==
    Q(WScale * RScale + SumSeq([j \in 1..Len(W[s]) |-> W[s][j] * (R[s][j] - RScale)]),
      WScale * RScale)
RECURSIVE PlainCurve(_, _, _)
PlainCurve(W, R, t) ==
    IF t = 1 THEN PlainFactor(W, R, 1) ELSE QMul(PlainCurve(W, R, t - 1), PlainFactor(W, R, t))

SingleFund ==
    /\ Done /\ Valid(arg) /\ arg.funds = 1 /\ arg.init_cash = 1
    /\ arg.ret_mean /\ arg.benchmark = None

\* C1 as stated: with funds = 1 and any valid freq, the returned curve is the plain
\* compounding curve that uses the row-s weights at every period s.
C1_AnyFreq ==
    SingleFund => \A t \in 1..m : result[t] = PlainCurve(W0, R0, t)

\* C1 amended: with funds = 1 and freq = 1 the returned curve is the plain compounding
\* curve cumprod(1 + sum_j weight[s,j] * (return[s,j] - 1)) of the row-s weights.
C1_SingleFundEveryPeriod ==
    (SingleFund /\ arg.freq = 1) =>
        /\ Len(result) = m
        /\ \A t \in 1..m : result[t] = PlainCurve(W0, R0, t)

C1_Witness ==
    /\ SingleFund /\ arg.freq = 1
    /\ arg.weights.data = << <<WScale>>, <<0>>, <<0>> >>
    /\ arg.returns.data = << <<RScale + 1>>, <<RScale>>, <<RScale>> >>
    /\ result = << <<11, 10>>, <<11, 10>>, <<11, 10>> >>

\* the caller's matrices with every NaN replaced beforehand
CleanW(M) ==
    Tuple([t \in 1..Len(M) |-> Tuple([j \in 1..Len(M[t]) |-> IF M[t][j] = NaN THEN 0 ELSE M[t][j]])])
CleanR(M) ==
    Tuple([t \in 1..Len(M) |-> Tuple([j \in 1..Len(M[t]) |-> IF M[t][j] = NaN THEN RScale ELSE M[t][j]])])
Cleaned(a) == [a EXCEPT !.weights.data = CleanW(@), !.returns.data = CleanR(@)]
HasNaN(M) == \E t \in 1..Len(M) : \E j \in 1..Len(M[t]) : M[t][j] = NaN
NoNaNCurve(c) ==
    \A t \in 1..Len(c) :
        IF arg.ret_mean THEN ~IsNaNQ(c[t]) ELSE \A f \in 1..Len(c[t]) : ~IsNaNQ(c[t][f])

\* C2: the result equals the result of the same call on inputs whose NaN returns were
\* replaced by 1.0 and NaN weights by 0.0 beforehand; the matrices the fund loop reads
\* hold no NaN, and no NaN reaches the returned curve.
C2_NaNReplacedUpFront ==
    /\ (Prepared /\ Valid(arg)) => ~HasNaN(W0) /\ ~HasNaN(R0)
    /\ (Done /\ Valid(arg)) =>
          /\ result = CumulativeReturns(Cleaned(arg), idle)
          /\ NoNaNCurve(result)

C2_Witness ==
    /\ Done /\ Valid(arg) /\ arg.funds >= 2
    /\ HasNaN(arg.weights.data) /\ HasNaN(arg.returns.data)
    /\ arg.risk_free # RScale
    /\ result = CumulativeReturns(Cleaned(arg), idle)

\* the tolerance 1e-5
Tolerance == WScale \div (10 ^ RoundDecimals)

\* sum of the absolute real-asset weights of a row, NaN counted as 0
AbsAssets(row) ==
    SumSeq([j \in 1..Len(row) |-> IF row[j] = NaN THEN 0 ELSE IF row[j] < 0 THEN 0 - row[j] ELSE row[j]])

\* C3: in every row of the weights matrix handed to the fund loop, the cash weight
\* (column 0) plus the sum of the absolute real-asset weights is 1 within 1e-5.
C3_CashPlusAbsWeightsIsOne ==
    (Prepared /\ Valid(arg)) =>
        \A t \in 1..m :
            LET total == W0[t][1] + AbsAssets(arg.weights.data[t])
            IN  /\ total - WScale <= Tolerance
                /\ WScale - total <= Tolerance
                /\ \A j \in 2..n : W0[t][j] = CleanW(arg.weights.data)[t][j - 1]

\* a row whose absolute sum is not a multiple of 1e-5, so that the rounding acts
C3_Witness ==
    /\ Prepared /\ Valid(arg)
    /\ \E t \in 1..m : W0[t][1] + AbsAssets(arg.weights.data[t]) # WScale
    /\ \E t \in 1..m : W0[t][1] + AbsAssets(arg.weights.data[t]) = WScale - 4

\* prod over s <= t of (1 + b[s])
RECURSIVE Compound(_, _)
Compound(b, t) == IF t = 0 THEN <<1, 1>> ELSE QMul(Compound(b, t - 1), Q(RScale + b[t], RScale))

\* C4: the aggregated result with a benchmark b is, element by element, the
\* aggregated result without benchmark minus prod_{s <= t} (1 + b[s]).
C4_BenchmarkExcess ==
    (Done /\ Valid(arg) /\ arg.ret_mean /\ arg.benchmark # None) =>
        LET plain == CumulativeReturns(NoBenchmark(arg), idle)
        IN  /\ Len(result) = m
            /\ \A t \in 1..m : result[t] = QSub(plain[t], Compound(arg.benchmark, t))

C4_Witness ==
    /\ Done /\ Valid(arg) /\ arg.ret_mean /\ arg.benchmark # None
    /\ arg.funds >= 2 /\ m >= 2
    /\ result[m] # CumulativeReturns(NoBenchmark(arg), idle)[m]

\* C5: with ret_mean and no benchmark the result is the length-T mean over the funds
\* of the per-fund curves; without ret_mean it is the T x funds matrix of the
\* per-fund curves, whether or not a benchmark is supplied.
C5_MeanOrMatrix ==
    (Done /\ Valid(arg)) =>
        /\ (arg.ret_mean /\ arg.benchmark = None) =>
              /\ Len(result) = m
              /\ \A t \in 1..m : QMul(result[t], <<arg.funds, 1>>) = QSum(out[t])
        /\ ~arg.ret_mean =>
              /\ Len(result) = m
              /\ \A t \in 1..m : Len(result[t]) = arg.funds
              /\ result = out
              /\ result = CumulativeReturns(NoBenchmark(arg), idle)

C5_Witness ==
    /\ Done /\ Valid(arg) /\ ~arg.ret_mean /\ arg.benchmark # None /\ arg.funds >= 2
    /\ result = out /\ Len(result) = m
    /\ \E t \in 1..m : result[t][1] # result[t][2]

\* C7: the caller's returns, weights and benchmark arrays keep their content and
\* layout through the whole call; promotion, cash column and NaN replacement
\* act on other buffers.
C7_CallerArraysUnchanged ==
    /\ heap[CallerReturns] = arg.returns.data
    /\ heap[CallerWeights] = arg.weights.data
    /\ heap[CallerBenchmark] = arg.benchmark
    /\ Prepared => /\ returns.buf \notin {CallerReturns, CallerWeights, CallerBenchmark}
                   /\ weights.buf \notin {CallerReturns, CallerWeights, CallerBenchmark}

\* a 1-D input with NaN, promoted, extended by the cash column and cleaned
C7_Witness ==
    /\ Done /\ Valid(arg)
    /\ Len(arg.weights.shape) = 1 /\ Len(weights.shape) = 2
    /\ HasNaN(arg.weights.data) /\ ~HasNaN(W0)
    /\ Len(W0[1]) = Len(arg.weights.data[1]) + 1
    /\ arg.benchmark # None

SameShape(a) ==
    /\ Len(a.returns.data) = Len(a.weights.data)
    /\ Len(a.returns.data[1]) = Len(a.weights.data[1])

\* C6: a call that violates a precondition is rejected at call entry, before any fund
\* computation and without a curve: ShapeMismatch for returns and weights of
\* different shape, InvalidParameter for funds < 1 or freq < 1.
C6_RejectedAtEntry ==
    (~Valid(arg) /\ pc # "entry") =>
        /\ pc = "failed"
        /\ error = IF SameShape(arg) THEN "InvalidParameter" ELSE "ShapeMismatch"
        /\ i = 0 /\ out = <<>> /\ result = <<>>

\* t is one of k, k+freq, k+2*freq, ...
InCadence(k, t, freq) == \E q \in 0..t : t = k + q * freq

\* the positions the docstring lists for funds 0, 1, 2
DocHeld == << <<0, 0, 0, 1, 1, 1>>, <<0, 1, 1, 1, 0, 0>>, <<0, 0, 1, 1, 1, 0>> >>

\* C8: fund k takes over the weights row of period t exactly at t = k, k+freq, ...,
\* holds the row of its latest rebalance at every other period and holds no asset
\* before its first rebalance; on the docstring's example the funds hold DocHeld.
C8_StaggeredPositions ==
    (Prepared /\ Valid(arg) /\ i >= 1) =>
        /\ \A k \in 0..(arg.funds - 1) :
              LET t == i - 1
                  last == CHOOSE s \in 0..t :
                              /\ InCadence(k, s, arg.freq)
                              /\ \A u \in (s + 1)..t : ~InCadence(k, u, arg.freq)
              IN  IF t < k THEN \A j \in 2..n : position[k + 1][j] = 0
                  ELSE position[k + 1] = W0[last + 1]
        /\ arg = DocCall =>
              \A k \in 0..2 : position[k + 1][2] = DocHeld[k + 1][i] * WScale

C8_Witness ==
    /\ arg = DocCall /\ Done
    /\ position[1][2] = WScale /\ position[2][2] = 0 /\ position[3][2] = 0

HeldFactor(held, ret) ==
    Q(WScale * RScale + SumSeq([j \in 1..Len(held) |-> held[j] * (ret[j] - RScale)]),
      WScale * RScale)

====
